---------------------------- MODULE Spec2Model ----------------------------
(***************************************************************************)
(* A model of the tradingbot repository: the moving-average crossover      *)
(* strategy (src/src/strategies/moving_average.py), the backtest loop and  *)
(* the live trade gate of TradingBot (src/src/trading_bot.py).             *)
(*                                                                         *)
(* Conventions.  A bar series (a pandas DataFrame) is a sequence of bars   *)
(* [time, close]; the row pandas calls iloc[i] is element i + 1 of the     *)
(* sequence.  Prices are positive integers, so every rolling sum is exact  *)
(* in float64 and a rolling mean is kept as the exact fraction num / den;  *)
(* two such means compare in float64 exactly as the fractions do.  NaN is  *)
(* a mean with def = FALSE, and every comparison with NaN is false, as in  *)
(* pandas.                                                                 *)
(***************************************************************************)
EXTENDS Integers, Sequences, FiniteSets, TLC

\* ------------------------------------------------------------------ bounds
\* Longest bar series drawn as an input.
MaxLen == 5
\* Close prices are drawn from 1..MaxPrice.
MaxPrice == 3
\* short_window and long_window are drawn from 1..MaxWin.
MaxWin == 3
\* Longest bar series the exchange returns to a backtest.
BtMaxLen == 6
\* The backtest bot's short_window and long_window are drawn from 1..BtMaxWin.
BtMaxWin == 2
\* Longest frame the exchange returns with its timestamps out of order.
MaxUnorderedLen == 4
\* Longest flat run at the start of a scenario series.
MaxFlat == 30
\* Longest frame handed to analyze_market.
MaxAnalyzeLen == 3
\* Most orders one live run submits to the exchange.
MaxOrders == 4
\* Most trading cycles called in one run of the bot.
MaxCycles == 4
\* Most jobs one run of the bot registers with the scheduler.
MaxJobs == 2
\* Largest amount of the one asset in an account balance.
MaxFunds == 2
\* Most entries of a profit_loss_history.
MaxUpdates == 3
\* Most ProfitLossTracker objects built on one storage file.
MaxSessions == 2
\* The last calendar day the clock reaches.
MaxDays == 2
\* Most files in the data directory.
MaxFiles == 3
\* The age, in days, of the oldest file in the data directory.
MaxAge == 2

VARIABLES
    params,          \* Strategy.params: [short_window, long_window]
    data,            \* the bar series handed to the strategy
    called,          \* the strategy operations applied to data so far
    sig_out,         \* what generate_signal(data) did
    ind_out,         \* what calculate_indicators(data) returned
    bt_pc,           \* backtest: "idle", "loop", "done"
    strategy_data,   \* backtest: the annotated series (strategy_data)
    i,               \* backtest: the loop variable of `for i in range(1, len(signals))`
    position,        \* backtest: 0 = no position, 1 = has position
    entry_price,     \* backtest: price of the most recent opening buy (0: not yet bound)
    exit_price,      \* backtest: price of the most recent closing sell (0: not yet bound)
    trades,          \* backtest: the list of trade records
    returns,         \* backtest: the returns Series, one entry per bar (NaN = no return)
    bt_result,       \* backtest: the returned dictionary (status "NoCall" before it returns)
    last_action,     \* live: TradingBot.last_action
    data_cache,      \* live: TradingBot.data_cache, <<>> for None, <<series>> once set
    trades_history,  \* live: TradingBot.trades_history (the 'type' of each entry)
    orders,          \* live: the sides of the orders submitted to the exchange client
    call,            \* live: the most recent execute_trade call and what it returned
    env,             \* the environment TradingBot.__init__ reads with os.getenv
    ctor,            \* TradingBot(): "pending", "ok", or the exception it raised
    attrs,           \* the attributes __init__ has assigned on the bot
    ctor_params,     \* the dictionary MovingAverageCrossover(...) was built with
    named,           \* per key, the value of the latest set_params call naming it
    analyzed,        \* the most recent analyze_market call: argument, frame used, result
    is_running,      \* TradingBot.is_running
    jobs,            \* the trading_cycle jobs registered with `schedule`, by mode
    start_pc,        \* where the thread is inside start: "idle" when outside
    mode,            \* the mode argument of the start call in progress
    due,             \* inside run_pending: the jobs still to run in this tick
    cycles,          \* the trading cycles begun and not yet finished
    begun,           \* how many trading cycles were called so far
    faulted,         \* the latest exception caught inside a trading cycle: cycle and step
    start_ret,       \* how the most recent start call ended
    tracker,         \* the ProfitLossTracker: <<its attributes>>, <<>> before it is built
    stored,          \* the financial-history file: <<its content>>, <<>> while missing
    today,           \* the calendar day of the clock
    tracker_op,      \* the latest call on a tracker: "none", "init" or "update"
    sessions,        \* ProfitLossTracker objects built so far
    dir_files,       \* the data directory: the age in days of each matching file
    cleaned          \* the latest cleanup_data_files call: arguments and outcome

strategy_vars == <<data, called, sig_out, ind_out>>
backtest_vars == <<bt_pc, strategy_data, i, position, entry_price, exit_price,
                   trades, returns, bt_result>>
live_vars == <<last_action, data_cache, trades_history, orders, call>>
ctor_vars == <<env, ctor, attrs>>
param_vars == <<ctor_params, named>>
run_vars == <<analyzed, is_running, jobs, start_pc, mode, due, cycles, begun,
              faulted, start_ret>>
tracker_vars == <<tracker, stored, today, tracker_op, sessions>>
cleanup_vars == <<dir_files, cleaned>>
util_vars == <<tracker_vars, cleanup_vars>>
vars == <<params, strategy_vars, backtest_vars, live_vars, ctor_vars, param_vars,
          run_vars, util_vars>>

NoCall == "NoCall"
\* A local variable of backtest that no assignment has bound yet.
Unbound == 0

\* ------------------------------------------------------------- bar series
Prices == 1..MaxPrice
Windows == 1..MaxWin

\* The timestamp of the bar at pandas position p (strictly increasing).
TimeOf(p) == 100 + 10 * p

\* All sequences over S of length n.
SeqsOfLen(S, n) == [1..n -> S]

\* Every bar series of at most max bars (the empty one included).
SeriesUpTo(max) ==
    UNION { { [k \in 1..n |-> [time |-> TimeOf(k - 1), close |-> c[k]]] :
                c \in SeqsOfLen(Prices, n) } : n \in 0..max }

\* The series handed to the strategy.
BarSeries == SeriesUpTo(MaxLen)

ParamSets == [short_window : Windows, long_window : Windows]

\* What get_ohlc_data may return to a backtest.
FetchedSeries == SeriesUpTo(BtMaxLen)
BtParamSets == [short_window : 1..BtMaxWin, long_window : 1..BtMaxWin]

\* A frame the exchange returned without a 'close' column: its bars carry a
\* time only.
NoCloseSeries == { [k \in 1..n |-> [time |-> TimeOf(k - 1)]] : n \in 1..BtMaxLen }

\* The bars of d, newest first.
NewestFirst(d) == [k \in 1..Len(d) |-> d[Len(d) + 1 - k]]

\* The bars of d with the second bar stamped like the first.
WithRepeatedTime(d) ==
    [k \in 1..Len(d) |-> [time |-> IF k = 2 THEN d[1].time ELSE d[k].time,
                          close |-> d[k].close]]

\* Frames whose timestamps are not strictly increasing: nothing between the
\* exchange and the backtest orders or deduplicates the rows.
UnorderedSeries ==
    UNION { {NewestFirst(d), WithRepeatedTime(d)} :
                d \in { x \in SeriesUpTo(MaxUnorderedLen) : Len(x) >= 2 } }

\* Every frame get_ohlc_data hands to a backtest.
BacktestFrames == FetchedSeries \cup NoCloseSeries \cup UnorderedSeries

\* 'close' in data.columns
HasCloseColumn(d) == \A k \in DOMAIN d : "close" \in DOMAIN d[k]

\* start_date / end_date of a backtest: None, or a timestamp.
NoDate == -1
StartDates == {NoDate, TimeOf(1)}
EndDates == {NoDate, TimeOf(0)}

\* ------------------------------------------------------- float64 with NaN
NaN == [def |-> FALSE, num |-> 0, den |-> 1]
Num(n, d) == [def |-> TRUE, num |-> n, den |-> d]

\* a > b, a < b, a <= b, a >= b on float64 values; false when either is NaN.
Gt(a, b) == a.def /\ b.def /\ a.num * b.den > b.num * a.den
Lt(a, b) == a.def /\ b.def /\ a.num * b.den < b.num * a.den
Le(a, b) == a.def /\ b.def /\ a.num * b.den <= b.num * a.den
Ge(a, b) == a.def /\ b.def /\ a.num * b.den >= b.num * a.den

\* ------------------------------------------------------- pandas primitives
RECURSIVE SumRange(_, _, _)
\* closes[lo] + ... + closes[hi]
SumRange(closes, lo, hi) ==
    IF lo > hi THEN 0 ELSE closes[hi] + SumRange(closes, lo, hi - 1)

\* A rolling mean that is defined on partial windows (min_periods = 1).
rolling_mean_partial(closes, window) ==
    [k \in 1..Len(closes) |->
        IF k < window THEN Num(SumRange(closes, 1, k), k)
        ELSE Num(SumRange(closes, k - window + 1, k), window)]

\* Series.rolling(window=window).mean(): NaN until `window` values are there.
rolling_mean(closes, window) ==
    [k \in 1..Len(closes) |->
        IF k < window THEN NaN
        ELSE Num(SumRange(closes, k - window + 1, k), window)]

\* The series itself, not shifted.
shift0(s) == s

\* Series.shift(1): every value one row later, NaN in the first row.
shift1(s) == [k \in 1..Len(s) |-> IF k = 1 THEN NaN ELSE s[k - 1]]

\* data['close']
CloseColumn(d) == [k \in 1..Len(d) |-> d[k].close]

\* ------------------------------------------------ MovingAverageCrossover
Signals == {"buy", "sell", "hold"}

\* The length guard of generate_signal, off by one.
InsufficientDataOffByOne(d, p) == Len(d) < p.long_window - 1

\* len(data) < self.params['long_window']
InsufficientData(d, p) == Len(d) < p.long_window

\* generate_signal(data): out is the returned signal, or "IndexError" when
\* .iloc[-2] is out of bounds; rolled tells whether the rolling means were
\* computed.
generate_signal(d, p) ==
    IF InsufficientData(d, p)
    THEN [out |-> "hold", rolled |-> FALSE]
    ELSE LET short_ma == rolling_mean(CloseColumn(d), p.short_window)
             long_ma == rolling_mean(CloseColumn(d), p.long_window)
             n == Len(d)
         IN  IF n < 2
             THEN [out |-> "IndexError", rolled |-> TRUE]
             ELSE LET current_short_ma == short_ma[n]
                      previous_short_ma == short_ma[n - 1]
                      current_long_ma == long_ma[n]
                      previous_long_ma == long_ma[n - 1]
                  IN  IF Le(previous_short_ma, previous_long_ma)
                         /\ Gt(current_short_ma, current_long_ma)
                      THEN [out |-> "buy", rolled |-> TRUE]
                      ELSE IF Ge(previous_short_ma, previous_long_ma)
                              /\ Lt(current_short_ma, current_long_ma)
                           THEN [out |-> "sell", rolled |-> TRUE]
                           ELSE [out |-> "hold", rolled |-> TRUE]

\* The bullish mask with a strict comparison on the previous bar.
BuyMaskStrict(short_ma, long_ma, k) ==
    Gt(short_ma[k], long_ma[k]) /\ Lt(shift1(short_ma)[k], shift1(long_ma)[k])

\* (short_ma > long_ma) & (short_ma.shift(1) <= long_ma.shift(1)), at row k
BuyMask(short_ma, long_ma, k) ==
    Gt(short_ma[k], long_ma[k]) /\ Le(shift1(short_ma)[k], shift1(long_ma)[k])

\* The bearish mask with a strict comparison on the previous bar.
SellMaskStrict(short_ma, long_ma, k) ==
    Lt(short_ma[k], long_ma[k]) /\ Gt(shift1(short_ma)[k], shift1(long_ma)[k])

\* (short_ma < long_ma) & (short_ma.shift(1) >= long_ma.shift(1)), at row k
SellMask(short_ma, long_ma, k) ==
    Lt(short_ma[k], long_ma[k]) /\ Ge(shift1(short_ma)[k], shift1(long_ma)[k])

\* calculate_indicators(data): a copy of data with the columns short_ma,
\* long_ma and signal; every signal starts as 'hold', then the rows of the
\* bullish mask become 'buy', then the rows of the bearish mask 'sell'.
calculate_indicators(d, p) ==
    LET short_ma == rolling_mean(CloseColumn(d), p.short_window)
        long_ma == rolling_mean(CloseColumn(d), p.long_window)
        signal0(k) == "hold"
        signal1(k) == IF BuyMask(short_ma, long_ma, k) THEN "buy" ELSE signal0(k)
        signal2(k) == IF SellMask(short_ma, long_ma, k) THEN "sell" ELSE signal1(k)
    IN  [k \in 1..Len(d) |->
            [time |-> d[k].time, close |-> d[k].close,
             short_ma |-> short_ma[k], long_ma |-> long_ma[k],
             signal |-> signal2(k)]]

\* The caller's frame when the columns are written to data itself.
CallerFrameAliased(d, result) == result

\* result = data.copy(): the columns are written to a copy, so the frame the
\* caller passed is after the call what it was before.
CallerFrameAfter(d, result) == d

\* ------------------------------------------------------- strategy actions
GenerateSignal ==
    /\ "generate_signal" \notin called
    /\ called' = called \cup {"generate_signal"}
    /\ sig_out' = generate_signal(data, params)
    /\ UNCHANGED <<params, data, ind_out, backtest_vars, live_vars,
                   ctor_vars, param_vars, util_vars, run_vars>>

CalculateIndicators ==
    /\ "calculate_indicators" \notin called
    /\ called' = called \cup {"calculate_indicators"}
    /\ ind_out' = calculate_indicators(data, params)
    /\ data' = CallerFrameAfter(data, ind_out')
    /\ UNCHANGED <<params, sig_out, backtest_vars, live_vars, ctor_vars, param_vars, util_vars, run_vars>>

\* ------------------------------------------------------- TradingBot.backtest
\* data.loc[data.index >= start_date] and data.loc[data.index <= end_date],
\* each applied only when the date is given.
FilterDates(d, start_date, end_date) ==
    LET from_start == IF start_date # NoDate
                      THEN SelectSeq(d, LAMBDA b : b.time >= start_date) ELSE d
    IN  IF end_date # NoDate
        THEN SelectSeq(from_start, LAMBDA b : b.time <= end_date) ELSE from_start

\* pd.Series(index=signals.index): one NaN per bar.
EmptyReturns(n) == [k \in 1..n |-> NaN]

\* The return with the two prices exchanged.
TradeReturnInverted(exit, entry) == Num(entry - exit, exit)

\* (exit_price / entry_price) - 1
TradeReturn(exit, entry) == Num(exit - entry, entry)

\* The exception leaving backtest instead of being turned into a result.
BacktestFailurePropagates(e) == [status |-> "raised", reason |-> e]

\* except Exception as e: return {'status': 'error', 'reason': str(e)}
BacktestFailure(e) == [status |-> "error", reason |-> e]

\* The position of an earlier run carried into this one.
InitialPositionKept(earlier) == earlier

\* position = 0: every run starts Flat, whatever an earlier run ended with.
InitialPosition(earlier) == 0

\* backtest up to the loop: fetch, the empty check, the date filters, the
\* indicators and the simulation variables.  fetch_market_data returns an
\* empty frame when the client fails or returns nothing, and caches every
\* other frame (save_data catches its own errors).  On a frame without a
\* 'close' column calculate_indicators raises KeyError('close') inside the
\* try block, and the handler returns it as the reason.
BacktestStart ==
    /\ bt_pc = "idle"
    /\ \E fetched \in BacktestFrames, start_date \in StartDates, end_date \in EndDates :
          IF fetched = <<>>
          THEN /\ bt_pc' = "done"
               /\ UNCHANGED data_cache
               /\ bt_result' = [status |-> "error", reason |-> "No data available"]
               /\ UNCHANGED <<strategy_data, i, position, entry_price, exit_price,
                              trades, returns>>
          ELSE IF ~HasCloseColumn(fetched)
          THEN /\ bt_pc' = "done"
               /\ data_cache' = <<fetched>>
               /\ bt_result' = BacktestFailure("'close'")
               /\ UNCHANGED <<strategy_data, i, position, entry_price, exit_price,
                              trades, returns>>
          ELSE LET filtered == FilterDates(fetched, start_date, end_date)
               IN  /\ strategy_data' = calculate_indicators(filtered, params)
                   /\ returns' = EmptyReturns(Len(filtered))
                   /\ position' = InitialPosition(position)
                   /\ trades' = <<>>
                   /\ i' = 1
                   /\ bt_pc' = "loop"
                   /\ data_cache' = <<fetched>>
                   /\ UNCHANGED <<entry_price, exit_price, bt_result>>
    /\ UNCHANGED <<params, strategy_vars, last_action, trades_history, orders, call,
                   ctor_vars, param_vars, util_vars, run_vars>>

\* The row signals.iloc[i-1] reads: pandas row i-1 is element i of the
\* sequence.
SignalRow(idx) == idx

\* The row of bar i itself, read for the price and the time.
PriceRowNoLag(idx) == idx + 1

\* The row prices.iloc[i-1] and signals.index[i-1] read.
PriceRow(idx) == idx

\* The buy branch taken whatever the position.
OpensPositionUnguarded(signal, pos) == signal = "buy"

\* signals.iloc[i-1] == 'buy' and position == 0
OpensPosition(signal, pos) == signal = "buy" /\ pos = 0

\* The sell branch taken whatever the position.
ClosesPositionUnguarded(signal, pos) == signal = "sell"

\* signals.iloc[i-1] == 'sell' and position == 1
ClosesPosition(signal, pos) == signal = "sell" /\ pos = 1

\* The loop going on for one more value of i, up to len(signals) itself.
LoopEndsLate(idx, n) == idx > n

\* range(1, len(signals)) is exhausted: idx has passed len(signals) - 1.
LoopEnds(idx, n) == idx >= n

\* One iteration of `for i in range(1, len(signals))`; returns.iloc[i] is
\* entry i + 1 of the sequence.
BacktestStep ==
    /\ bt_pc = "loop"
    /\ ~LoopEnds(i, Len(strategy_data))
    /\ LET signal == strategy_data[SignalRow(i)].signal
           price == strategy_data[PriceRow(i)].close
           trade_time == strategy_data[PriceRow(i)].time
       IN  IF OpensPosition(signal, position)
           THEN /\ entry_price' = price
                /\ position' = 1
                /\ trades' = Append(trades, [time |-> trade_time, action |-> "BUY",
                                             price |-> price])
                /\ UNCHANGED <<exit_price, returns>>
           ELSE IF ClosesPosition(signal, position)
           THEN /\ exit_price' = price
                /\ returns' = [returns EXCEPT ![i + 1] = TradeReturn(price, entry_price)]
                /\ position' = 0
                /\ trades' = Append(trades, [time |-> trade_time, action |-> "SELL",
                                             price |-> price,
                                             profit |-> TradeReturn(price, entry_price)])
                /\ UNCHANGED entry_price
           ELSE UNCHANGED <<entry_price, exit_price, position, trades, returns>>
    /\ i' = i + 1
    /\ UNCHANGED <<bt_pc, strategy_data, bt_result>>
    /\ UNCHANGED <<params, strategy_vars, live_vars, ctor_vars, param_vars, util_vars, run_vars>>

\* ------------------------------------------------------------- the metrics
Zero == Num(0, 1)

\* returns != 0, elementwise: true of NaN, as NaN != 0 is in float64.
NotZero(r) == ~r.def \/ r.num # 0

RECURSIVE SumOver(_, _)
\* The sum of series[k] over k in idx, as one fraction.
SumOver(series, idx) ==
    IF idx = {} THEN Zero
    ELSE LET k == CHOOSE x \in idx : TRUE
             rest == SumOver(series, idx \ {k})
         IN  Num(series[k].num * rest.den + rest.num * series[k].den,
                 series[k].den * rest.den)

\* Series.mean() of the selected entries (there is at least one).
MeanOver(series, idx) ==
    LET total == SumOver(series, idx)
    IN  Num(total.num, total.den * Cardinality(idx))

RECURSIVE SumOnePlus(_, _)
\* One plus the plain sum of the returns: no compounding.
SumOnePlus(series, n) ==
    IF n = 0 THEN Num(1, 1)
    ELSE LET rest == SumOnePlus(series, n - 1)
         IN  IF series[n].def
             THEN Num(series[n].num * rest.den + rest.num * series[n].den,
                      series[n].den * rest.den)
             ELSE rest

RECURSIVE ProdOnePlus(_, _)
\* (1 + returns).prod() over the first n entries; prod skips NaN.
ProdOnePlus(series, n) ==
    IF n = 0 THEN Num(1, 1)
    ELSE LET rest == ProdOnePlus(series, n - 1)
         IN  IF series[n].def
             THEN Num((series[n].den + series[n].num) * rest.num,
                      series[n].den * rest.den)
             ELSE rest

\* The metrics dictionary backtest computes from the returns Series.
Metrics(rets) ==
    LET total_trades == Cardinality({ k \in DOMAIN rets : NotZero(rets[k]) })
        wins == { k \in DOMAIN rets : Gt(rets[k], Zero) }
        losses == { k \in DOMAIN rets : Lt(rets[k], Zero) }
        winning_trades == Cardinality(wins)
        losing_trades == Cardinality(losses)
        product == ProdOnePlus(rets, Len(rets))
    IN  [total_trades |-> total_trades,
         winning_trades |-> winning_trades,
         losing_trades |-> losing_trades,
         win_rate |-> IF total_trades > 0 THEN Num(winning_trades, total_trades)
                      ELSE Zero,
         avg_win |-> IF winning_trades > 0 THEN MeanOver(rets, wins) ELSE Zero,
         avg_loss |-> IF losing_trades > 0 THEN MeanOver(rets, losses) ELSE Zero,
         cumulative_return |-> Num(product.num - product.den, product.den)]

\* backtest after the loop: the metrics and the returned dictionary, whose
\* keys are status, metrics and data.  plot_strategy catches its own errors.
BacktestFinish ==
    /\ bt_pc = "loop"
    /\ LoopEnds(i, Len(strategy_data))
    /\ bt_pc' = "done"
    /\ bt_result' = [status |-> "success", metrics |-> Metrics(returns),
                     data |-> strategy_data]
    /\ UNCHANGED <<strategy_data, i, position, entry_price, exit_price, trades, returns>>
    /\ UNCHANGED <<params, strategy_vars, live_vars, ctor_vars, param_vars, util_vars, run_vars>>

\* --------------------------------------------------- Strategy parameters
\* The defaults of MovingAverageCrossover.__init__.
DefaultShortWindow == 20
DefaultLongWindow == 50
DefaultParams == [short_window |-> DefaultShortWindow, long_window |-> DefaultLongWindow]

\* The keys and values of the dictionaries passed to the strategy; 'threshold'
\* is a key the strategy has no default for.
ParamKeys == {"short_window", "long_window", "threshold"}
ParamValues == 1..BtMaxWin
ParamDicts == UNION { [K -> ParamValues] : K \in SUBSET ParamKeys }
EmptyDict == [k \in {} |-> 0]

\* The dictionary replaced by the argument.
DictReplace(d, u) == u

\* d.update(u): the keys of u take u's values, every other key keeps its own.
DictUpdate(d, u) ==
    [k \in DOMAIN d \cup DOMAIN u |-> IF k \in DOMAIN u THEN u[k] ELSE d[k]]

\* MovingAverageCrossover(params): the defaults updated with params; an
\* empty dictionary is skipped by `if params`, and Strategy.__init__ keeps
\* the result as self.params.
MovingAverageCrossover(given) ==
    IF given = EmptyDict THEN DefaultParams ELSE DictUpdate(DefaultParams, given)

\* Strategy.set_params(params)
set_params(current, update) == DictUpdate(current, update)

SetParams ==
    /\ \E update \in ParamDicts :
          /\ params' = set_params(params, update)
          /\ named' = [k \in DOMAIN named \cup DOMAIN update |->
                          IF k \in DOMAIN update THEN update[k] ELSE named[k]]
    /\ UNCHANGED <<ctor_params, strategy_vars, backtest_vars, live_vars, ctor_vars,
                   run_vars, util_vars>>

\* ------------------------------------------------------ TradingBot.__init__
\* An environment variable that is not set.
Unset == "unset"
UnsetWindow == 0

\* os.getenv(name, default)
Getenv(value, default) == IF value = Unset THEN default ELSE value

\* int(os.getenv(name, default)), for a value that is a numeral
GetenvInt(value, default) == IF value = UnsetWindow THEN default ELSE value

\* What STRATEGY, SHORT_WINDOW and LONG_WINDOW may be in the environment.
StrategyNames == {Unset, "simple_ma", "SIMPLE_MA", "rsi", ""}
Environments ==
    [STRATEGY : StrategyNames,
     SHORT_WINDOW : {UnsetWindow} \cup Windows,
     LONG_WINDOW : {UnsetWindow} \cup Windows]

\* The attributes __init__ assigns, in the order of the code: up to the
\* client, up to the strategy, and the state variables after it.
ClientAttrs == {"bot_id", "logger"}
ConfigAttrs == ClientAttrs \cup {"client", "trading_pair", "trade_volume"}
StateAttrs == {"is_running", "last_action", "data_cache", "trades_history"}
AllAttrs == ConfigAttrs \cup {"strategy"} \cup StateAttrs

\* A value of the model for an attribute that was never assigned.
Unassigned == "unassigned"

\* Every strategy name taken as the default strategy.
AnyStrategyKnown(strategy_name) == TRUE

\* strategy_name == 'simple_ma'
KnownStrategy(strategy_name) == strategy_name = "simple_ma"

\* TradingBot(): the client, the trading parameters, _init_strategy, and only
\* then the state variables.  An exception of the client is re-raised; an
\* unknown strategy name raises ValueError out of _init_strategy.  The
\* defaults of SHORT_WINDOW and LONG_WINDOW are the strategy's own 20 and 50.
Construct ==
    /\ ctor = "pending"
    /\ \E client \in {"ok", "raise"} :
          IF client = "raise"
          THEN /\ ctor' = "ClientError"
               /\ attrs' = ClientAttrs
               /\ UNCHANGED <<params, ctor_params, last_action, data_cache,
                              trades_history>>
          ELSE LET strategy_name == Getenv(env.STRATEGY, "simple_ma")
                   short_window == GetenvInt(env.SHORT_WINDOW, DefaultShortWindow)
                   long_window == GetenvInt(env.LONG_WINDOW, DefaultLongWindow)
                   given == [short_window |-> short_window, long_window |-> long_window]
               IN  IF KnownStrategy(strategy_name)
                   THEN /\ ctor_params' = given
                        /\ params' = MovingAverageCrossover(given)
                        /\ last_action' = "none"
                        /\ data_cache' = <<>>
                        /\ trades_history' = <<>>
                        /\ attrs' = AllAttrs
                        /\ ctor' = "ok"
                   ELSE /\ ctor' = "ValueError"
                        /\ attrs' = ConfigAttrs
                        /\ UNCHANGED <<params, ctor_params, last_action, data_cache,
                                       trades_history>>
    /\ UNCHANGED <<env, named, orders, call, strategy_vars, backtest_vars,
                   util_vars>>
    /\ IF ctor' = "ok" THEN is_running' = FALSE ELSE UNCHANGED is_running
    /\ UNCHANGED <<analyzed, jobs, start_pc, mode, due, cycles, begun, faulted,
                   start_ret>>

\* No ProfitLossTracker is built and no history file is written yet.
NoTracker == <<>>
NoFile == <<>>
TrackerIdle ==
    /\ tracker = NoTracker /\ stored = NoFile
    /\ today = 1 /\ tracker_op = "none" /\ sessions = 0

\* No cleanup_data_files call yet.
NotCleaned == [status |-> NoCall]

\* Nothing of the utilities is in use: no tracker, an empty data directory.
UtilsIdle ==
    /\ TrackerIdle
    /\ dir_files = EmptyDict /\ cleaned = NotCleaned

\* No analyze_market call yet, and the bot not started: is_running is False
\* and nothing is registered with the scheduler.
NoFault == [id |-> 0, step |-> "none"]
NotAnalyzed == [arg |-> <<>>, used |-> <<>>, out |-> NoCall]
NotStarted ==
    /\ analyzed = NotAnalyzed
    /\ jobs = <<>> /\ start_pc = "idle" /\ mode = "none" /\ due = <<>>
    /\ cycles = <<>> /\ begun = 0 /\ faulted = NoFault /\ start_ret = "none"

\* A bot that was constructed with the strategy's windows in the environment.
Constructed ==
    /\ is_running = FALSE /\ NotStarted
    /\ ctor = "ok" /\ attrs = AllAttrs
    /\ env = [STRATEGY |-> "simple_ma", SHORT_WINDOW |-> params.short_window,
              LONG_WINDOW |-> params.long_window]
    /\ ctor_params = params /\ named = EmptyDict

BacktestIdle ==
    /\ bt_pc = "idle" /\ strategy_data = <<>> /\ i = 0 /\ position = 0
    /\ entry_price = Unbound /\ exit_price = Unbound
    /\ trades = <<>> /\ returns = <<>> /\ bt_result = [status |-> NoCall]

LiveFresh ==
    /\ last_action = "none" /\ data_cache = <<>>
    /\ trades_history = <<>> /\ orders = <<>>
    /\ call = [signal |-> NoCall, prev_action |-> "none", submitted |-> "none",
               status |-> NoCall,
               ticker |-> "none", exchange |-> "none",
               reason |-> "none"]

InitStrategy ==
    /\ UtilsIdle
    /\ params \in ParamSets
    /\ data \in BarSeries
    /\ called = {}
    /\ sig_out = [out |-> NoCall, rolled |-> FALSE] /\ ind_out = <<>>
    /\ BacktestIdle /\ LiveFresh /\ Constructed

NextStrategy == GenerateSignal \/ CalculateIndicators

SpecStrategy == InitStrategy /\ [][NextStrategy]_vars

\* -------------------------------------------------- TradingBot.execute_trade
\* The signals execute_trade is called with: the three the strategy produces,
\* and two it does not ('none' is also the initial last_action).
LiveSignals == {"buy", "sell", "hold", "none", "short"}

\* What the order block does once it runs: "ok" - the client returns a result
\* without an error and the record is stored; "error" - the client returns
\* {'error': ...} (KrakenClient.create_order does so for every failure);
\* "raise" - an exception escapes the block after create_order was called.
OrderOutcomes == {"ok", "error", "raise"}

\* The gate without the comparison with last_action.
GateHoldOnly(signal, last) == signal = "hold"

\* signal == 'hold' or signal == self.last_action
Gate(signal, last) == signal = "hold" \/ signal = last

\* What client.get_ticker does when execute_trade asks for the current price.
TickerOutcomes == {"ok", "raise"}

\* A failed price fetch ends the call.
TickerFailureAborts(ticker) == ticker = "raise"

\* except Exception: current_price = None - the call continues without a price.
TickerAborts(ticker) == FALSE

\* Every order block reaches the end of execute_trade.
OrderAlwaysSucceeds(outcome) == TRUE

\* The order block reaches the end of execute_trade: the result carries no
\* error and nothing raised.
OrderSucceeds(outcome) == outcome = "ok"

\* last_action stays what it was.
NextActionKept(signal, last) == last

\* self.last_action = signal
NextAction(signal, last) == signal

\* execute_trade(signal), with what the price fetch does and what the order
\* block does if it runs.  The price is used for logging and stored in the
\* trade record only.
execute_trade(signal, ticker, outcome) ==
    /\ IF Gate(signal, last_action)
       THEN /\ call' = [signal |-> signal, prev_action |-> last_action,
                        submitted |-> "none", status |-> "no_trade",
                        ticker |-> "none", exchange |-> "none",
                        reason |-> "gate"]
            /\ UNCHANGED <<last_action, trades_history, orders>>
       ELSE IF TickerAborts(ticker)
       THEN /\ call' = [signal |-> signal, prev_action |-> last_action,
                        submitted |-> "none", status |-> "error",
                        ticker |-> ticker, exchange |-> "none",
                        reason |-> "ticker"]
            /\ UNCHANGED <<last_action, trades_history, orders>>
       ELSE IF signal \in {"buy", "sell"}
       THEN /\ orders' = Append(orders, signal)
            /\ IF OrderSucceeds(outcome)
               THEN /\ trades_history' = Append(trades_history, signal)
                    /\ last_action' = NextAction(signal, last_action)
                    /\ call' = [signal |-> signal, prev_action |-> last_action,
                                submitted |-> signal, status |-> "success",
                                ticker |-> ticker, exchange |-> outcome,
                                reason |-> "none"]
               ELSE /\ call' = [signal |-> signal, prev_action |-> last_action,
                                submitted |-> signal, status |-> "error",
                                ticker |-> ticker, exchange |-> outcome,
                                reason |-> outcome]
                    /\ UNCHANGED <<last_action, trades_history>>
       ELSE /\ call' = [signal |-> signal, prev_action |-> last_action,
                        submitted |-> "none", status |-> "error",
                        ticker |-> ticker, exchange |-> "none",
                        reason |-> "Unknown signal"]
            /\ UNCHANGED <<last_action, trades_history, orders>>

\* A call of execute_trade by the bot's user, while orders may still be sent.
ExecuteTrade ==
    /\ Len(orders) < MaxOrders
    /\ \E signal \in LiveSignals, ticker \in TickerOutcomes,
          outcome \in OrderOutcomes :
             execute_trade(signal, ticker, outcome)
    /\ UNCHANGED <<params, strategy_vars, backtest_vars, data_cache,
                   ctor_vars, param_vars, util_vars, run_vars>>

StrategyIdle ==
    /\ data = <<>> /\ called = {}
    /\ sig_out = [out |-> NoCall, rolled |-> FALSE] /\ ind_out = <<>>

\* A bot that was used before: a live buy was executed, and the model still
\* holds the open position an earlier backtest run ended with.
UsedBefore ==
    /\ bt_pc = "idle" /\ strategy_data = <<>> /\ i = 0 /\ position = 1
    /\ entry_price = Unbound /\ exit_price = Unbound
    /\ trades = <<>> /\ returns = <<>> /\ bt_result = [status |-> NoCall]
    /\ last_action = "buy" /\ data_cache = <<>>
    /\ trades_history = <<"buy">> /\ orders = <<"buy">>
    /\ call = [signal |-> "buy", prev_action |-> "none", submitted |-> "buy",
               status |-> "success",
               ticker |-> "ok", exchange |-> "ok",
               reason |-> "none"]

\* A fresh bot with any windows, or a bot used before (with one choice of
\* windows, to keep the state space small).
InitBacktest ==
    /\ UtilsIdle
    /\ params \in BtParamSets
    /\ StrategyIdle /\ Constructed
    /\ \/ BacktestIdle /\ LiveFresh
       \/ /\ params = [short_window |-> 1, long_window |-> BtMaxWin]
          /\ UsedBefore

NextBacktest == BacktestStart \/ BacktestStep \/ BacktestFinish

SpecBacktest == InitBacktest /\ [][NextBacktest]_vars

\* The bot as __init__ leaves it; the environment supplies the windows.
InitLive ==
    /\ UtilsIdle
    /\ params \in BtParamSets
    /\ StrategyIdle /\ BacktestIdle /\ LiveFresh /\ Constructed

NextLive == ExecuteTrade

SpecLive == InitLive /\ [][NextLive]_vars

\* ----------------------------- TradingBot.fetch_market_data, analyze_market
\* The frames analyze_market meets: with or without a 'close' column.
AnalyzeFrames ==
    SeriesUpTo(MaxAnalyzeLen) \cup { d \in NoCloseSeries : Len(d) <= MaxAnalyzeLen }

\* What the exchange client does when asked for OHLC data: it raises, or it
\* returns a frame (an empty one when it caught its own failure).
FetchOutcomes ==
    {[raised |-> TRUE, frame |-> <<>>]}
        \cup { [raised |-> FALSE, frame |-> f] : f \in AnalyzeFrames }

\* fetch_market_data(): the client's frame, or an empty frame when the
\* client raised.
fetch_market_data(outcome) == IF outcome.raised THEN <<>> ELSE outcome.frame

\* self.data_cache is set to whatever the fetch produced.
CacheAlwaysSet(cache, fetched) == <<fetched>>

\* self.data_cache after fetch_market_data: set only to a non-empty frame.
CacheAfterFetch(cache, fetched) == IF fetched = <<>> THEN cache ELSE <<fetched>>

\* The exception of the strategy leaving analyze_market.
AnalysisFailurePropagates(e) == e

\* except Exception as e: return 'hold'
AnalysisFailure(e) == "hold"

\* analyze_market on the frame it settled on: 'hold' for an empty frame;
\* calculate_indicators raises KeyError without a 'close' column, and
\* generate_signal may raise IndexError; otherwise the strategy's signal.
analyze_market(d, p) ==
    IF d = <<>> THEN "hold"
    ELSE IF ~HasCloseColumn(d) THEN AnalysisFailure("KeyError")
    ELSE LET signal == generate_signal(d, p).out
         IN  IF signal = "IndexError" THEN AnalysisFailure(signal) ELSE signal

\* analyze_market(data): the argument when one is given (<<>> stands for
\* None), else the cache, else a fresh fetch, which also fills the cache.
AnalyzeMarket ==
    /\ analyzed.out = NoCall
    /\ \E arg \in {<<>>} \cup { <<f>> : f \in AnalyzeFrames } :
          IF arg = <<>> /\ data_cache = <<>>
          THEN \E outcome \in FetchOutcomes :
                  LET fetched == fetch_market_data(outcome)
                  IN  /\ data_cache' = CacheAfterFetch(data_cache, fetched)
                      /\ analyzed' = [arg |-> arg, used |-> fetched,
                                      out |-> analyze_market(fetched, params)]
          ELSE LET d == IF arg # <<>> THEN arg[1] ELSE data_cache[1]
               IN  /\ UNCHANGED data_cache
                   /\ analyzed' = [arg |-> arg, used |-> d,
                                   out |-> analyze_market(d, params)]
    /\ UNCHANGED <<params, strategy_vars, backtest_vars, last_action, trades_history,
                   orders, call, ctor_vars, param_vars, util_vars>>
    /\ UNCHANGED <<is_running, jobs, start_pc, mode, due, cycles, begun, faulted,
                   start_ret>>

\* A constructed bot whose cache is empty or holds an earlier fetch.
InitAnalyze ==
    /\ UtilsIdle
    /\ params \in BtParamSets
    /\ StrategyIdle /\ BacktestIdle /\ Constructed
    /\ last_action = "none" /\ trades_history = <<>> /\ orders = <<>>
    /\ call = [signal |-> NoCall, prev_action |-> "none", submitted |-> "none",
               status |-> NoCall,
               ticker |-> "none", exchange |-> "none",
               reason |-> "none"]
    /\ data_cache \in {<<>>} \cup { <<f>> : f \in AnalyzeFrames \ {<<>>} }

NextAnalyze == AnalyzeMarket

SpecAnalyze == InitAnalyze /\ [][NextAnalyze]_vars

\* ---------------------------------------------------------- TradingBot.start
\* start(mode): every mode other than 'live' is paper trading.
Modes == {"live", "paper"}

\* The frame with the given closes, one bar per interval.
SeriesOf(closes) ==
    [k \in 1..Len(closes) |-> [time |-> TimeOf(k - 1), close |-> closes[k]]]

\* What the exchange client does when a trading cycle asks for OHLC data: it
\* raises, or returns no bar, bars without a 'close' column, or one of three
\* frames (rising, falling and flat at the last bar).
CycleFetchOutcomes ==
    {[raised |-> TRUE, frame |-> <<>>], [raised |-> FALSE, frame |-> <<>>],
     [raised |-> FALSE, frame |-> <<[time |-> TimeOf(0)]>>]}
        \cup { [raised |-> FALSE, frame |-> SeriesOf(c)] :
                  c \in {<<1, 1, 2>>, <<2, 2, 1>>, <<1, 1, 1>>} }

\* What save_data and get_account_balance do.
CallOutcomes == {"ok", "raise"}

\* if mode == 'live'
IsLive(m) == m = "live"

\* A trading cycle that has just been called.
NewCycle(m, n) ==
    [id |-> n, mode |-> m, pc |-> "fetch", data |-> <<>>, signal |-> "none"]

\* The exception caught in the given step of cycle c.
Fault(c, step) == [id |-> c.id, step |-> step]

ReplaceAt(cs, k, c) == [j \in 1..Len(cs) |-> IF j = k THEN c ELSE cs[j]]
RemoveAt(cs, k) == [j \in 1..(Len(cs) - 1) |-> IF j < k THEN cs[j] ELSE cs[j + 1]]

\* The job is started and run_pending goes on to the next without waiting.
JobDetached(cs) == TRUE

\* run_pending calls a job as a function: it calls the next job, and start
\* goes on, only once the cycle called before has returned.
JobReturned(cs) == cs = <<>>

\* The exception leaves trading_cycle.
CycleFailurePropagates(e) == e

\* except Exception as e: the cycle logs the exception and ends.
CycleFailure(e) == "caught"

\* start never takes the bot for running.
NeverRunning(running) == FALSE

\* if self.is_running: return
AlreadyRunning(running) == running

\* bot.start(mode): returns at once when is_running is set; else sets it and
\* calls the initial trading cycle.
Start ==
    /\ start_pc = "idle" /\ ctor = "ok"
    /\ \E m \in Modes :
          IF AlreadyRunning(is_running)
          THEN /\ start_ret' = "already_running"
               /\ UNCHANGED <<is_running, start_pc, mode, cycles, begun>>
          ELSE /\ Len(jobs) < MaxJobs /\ begun < MaxCycles
               /\ is_running' = TRUE
               /\ start_pc' = "initial" /\ mode' = m
               /\ cycles' = <<NewCycle(m, begun + 1)>>
               /\ begun' = begun + 1
               /\ start_ret' = "none"
    /\ UNCHANGED <<params, strategy_vars, backtest_vars, live_vars, ctor_vars,
                   param_vars, util_vars, analyzed, jobs, due, faulted>>

\* trading_cycle: data = self.fetch_market_data(...); if data.empty: return.
\* An exception of the client is caught inside fetch_market_data.
CycleFetch ==
    /\ \E k \in DOMAIN cycles, outcome \in CycleFetchOutcomes :
          LET fetched == fetch_market_data(outcome)
          IN  /\ cycles[k].pc = "fetch"
              /\ faulted' = IF outcome.raised THEN Fault(cycles[k], "fetch") ELSE faulted
              /\ data_cache' = CacheAfterFetch(data_cache, fetched)
              /\ cycles' = IF fetched = <<>> THEN RemoveAt(cycles, k)
                           ELSE ReplaceAt(cycles, k,
                                   [cycles[k] EXCEPT !.pc = "analyze", !.data = fetched])
    /\ UNCHANGED <<params, strategy_vars, backtest_vars, last_action, trades_history,
                   orders, call, ctor_vars, param_vars, util_vars, analyzed, is_running, jobs,
                   start_pc, mode, due, begun, start_ret>>

\* trading_cycle: signal = self.analyze_market(data).  An exception of the
\* strategy is caught inside analyze_market.
CycleAnalyze ==
    /\ \E k \in DOMAIN cycles :
          LET d == cycles[k].data
              signal == analyze_market(d, params)
              raised == ~HasCloseColumn(d)
          IN  /\ cycles[k].pc = "analyze"
              /\ faulted' = IF raised THEN Fault(cycles[k], "analysis") ELSE faulted
              /\ analyzed' = [arg |-> <<d>>, used |-> d, out |-> signal]
              /\ cycles' = ReplaceAt(cycles, k,
                              [cycles[k] EXCEPT !.pc = "trade", !.signal = signal])
    /\ UNCHANGED <<params, strategy_vars, backtest_vars, live_vars, ctor_vars,
                   param_vars, util_vars, is_running, jobs, start_pc, mode, due, begun,
                   start_ret>>

\* trading_cycle: if mode == 'live': self.execute_trade(signal); in paper
\* mode the signal is logged only.  An exception of the order block is
\* caught inside execute_trade.
CycleTrade ==
    /\ \E k \in DOMAIN cycles :
          /\ cycles[k].pc = "trade"
          /\ cycles' = ReplaceAt(cycles, k, [cycles[k] EXCEPT !.pc = "save"])
          /\ IF IsLive(cycles[k].mode)
             THEN /\ Len(orders) < MaxOrders
                  /\ \E ticker \in TickerOutcomes, outcome \in OrderOutcomes :
                        /\ execute_trade(cycles[k].signal, ticker, outcome)
                        /\ faulted' = IF call'.exchange = "raise"
                                      THEN Fault(cycles[k], "order") ELSE faulted
             ELSE UNCHANGED <<last_action, trades_history, orders, call, faulted>>
    /\ UNCHANGED <<params, strategy_vars, backtest_vars, data_cache, ctor_vars,
                   param_vars, util_vars, analyzed, is_running, jobs, start_pc, mode, due,
                   begun, start_ret>>

\* trading_cycle: save_data(data, ...).  Its exception reaches the handler of
\* the cycle, which ends the cycle; without one a live cycle goes on to the
\* balance and a paper cycle is complete.
CycleSave ==
    /\ \E k \in DOMAIN cycles, saved \in CallOutcomes :
          /\ cycles[k].pc = "save"
          /\ IF saved = "raise"
             THEN /\ faulted' = Fault(cycles[k], "save")
                  /\ cycles' = RemoveAt(cycles, k)
                  /\ IF CycleFailure("OSError") = "caught"
                     THEN UNCHANGED <<start_pc, start_ret, due>>
                     ELSE /\ start_pc' = "crashed" /\ due' = <<>>
                          /\ start_ret' = CycleFailure("OSError")
             ELSE /\ cycles' = IF IsLive(cycles[k].mode)
                              THEN ReplaceAt(cycles, k,
                                      [cycles[k] EXCEPT !.pc = "balance"])
                              ELSE RemoveAt(cycles, k)
                  /\ UNCHANGED <<faulted, start_pc, start_ret, due>>
    /\ UNCHANGED <<params, strategy_vars, backtest_vars, live_vars, ctor_vars,
                   param_vars, util_vars, analyzed, is_running, jobs, mode, begun>>

\* trading_cycle, live mode: self.get_account_balance() inside its own
\* try/except; the cycle is complete either way.
CycleBalance ==
    /\ \E k \in DOMAIN cycles, balance \in CallOutcomes :
          /\ cycles[k].pc = "balance"
          /\ faulted' = IF balance = "raise" THEN Fault(cycles[k], "balance")
                        ELSE faulted
          /\ cycles' = RemoveAt(cycles, k)
    /\ UNCHANGED <<params, strategy_vars, backtest_vars, live_vars, ctor_vars,
                   param_vars, util_vars, analyzed, is_running, jobs, start_pc, mode, due,
                   begun, start_ret>>

\* start, after the initial cycle: schedule.every(...).minutes.do(trading_cycle).
Register ==
    /\ start_pc = "initial" /\ JobReturned(cycles)
    /\ jobs' = Append(jobs, mode)
    /\ start_pc' = "loop"
    /\ UNCHANGED <<params, strategy_vars, backtest_vars, live_vars, ctor_vars,
                   param_vars, util_vars, analyzed, is_running, mode, due, cycles, begun,
                   faulted, start_ret>>

\* The jobs of js at the positions in at, in their order.
JobsAt(js, at) ==
    LET F[k \in 0..Len(js)] ==
            IF k = 0 THEN <<>>
            ELSE IF k \in at THEN Append(F[k - 1], js[k]) ELSE F[k - 1]
    IN  F[Len(js)]

\* while self.is_running: schedule.run_pending() - an iteration in which some
\* of the registered jobs are due; when is_running is False start returns.
RunPending ==
    /\ start_pc = "loop"
    /\ IF is_running
       THEN /\ start_pc' = "pending"
            /\ \E at \in (SUBSET DOMAIN jobs) \ {{}} :
                  /\ begun + Cardinality(at) <= MaxCycles
                  /\ due' = JobsAt(jobs, at)
            /\ UNCHANGED start_ret
       ELSE /\ start_pc' = "idle" /\ start_ret' = "returned"
            /\ UNCHANGED due
    /\ UNCHANGED <<params, strategy_vars, backtest_vars, live_vars, ctor_vars,
                   param_vars, util_vars, analyzed, is_running, jobs, mode, cycles, begun,
                   faulted>>

\* run_pending calls the next due job.
RunJob ==
    /\ start_pc = "pending" /\ due # <<>> /\ JobReturned(cycles)
    /\ cycles' = Append(cycles, NewCycle(Head(due), begun + 1))
    /\ begun' = begun + 1
    /\ due' = Tail(due)
    /\ UNCHANGED <<params, strategy_vars, backtest_vars, live_vars, ctor_vars,
                   param_vars, util_vars, analyzed, is_running, jobs, start_pc, mode, faulted,
                   start_ret>>

\* run_pending returns, time.sleep(1), and the loop tests is_running again.
PendingDone ==
    /\ start_pc = "pending" /\ due = <<>> /\ JobReturned(cycles)
    /\ start_pc' = "loop"
    /\ UNCHANGED <<params, strategy_vars, backtest_vars, live_vars, ctor_vars,
                   param_vars, util_vars, analyzed, is_running, jobs, mode, due, cycles, begun,
                   faulted, start_ret>>

\* Ctrl+C while the thread is inside start.  KeyboardInterrupt is no
\* Exception, so it leaves a running cycle; inside the loop start catches it
\* and calls stop(), during the initial cycle it leaves start with
\* is_running still True.
Interrupt ==
    /\ start_pc \in {"initial", "loop", "pending"}
    /\ cycles' = <<>> /\ due' = <<>>
    /\ start_pc' = "idle"
    /\ IF start_pc = "initial"
       THEN /\ start_ret' = "KeyboardInterrupt"
            /\ UNCHANGED is_running
       ELSE /\ start_ret' = "stopped"
            /\ is_running' = FALSE
    /\ UNCHANGED <<params, strategy_vars, backtest_vars, live_vars, ctor_vars,
                   param_vars, util_vars, analyzed, jobs, mode, begun, faulted>>

\* bot.stop(), called by the bot's user while the thread is outside start.
Stop ==
    /\ start_pc = "idle" /\ is_running
    /\ is_running' = FALSE
    /\ UNCHANGED <<params, strategy_vars, backtest_vars, live_vars, ctor_vars,
                   param_vars, util_vars, analyzed, jobs, start_pc, mode, due, cycles, begun,
                   faulted, start_ret>>

\* A constructed bot on which nothing was called yet.
InitStart ==
    /\ UtilsIdle
    /\ params = [short_window |-> 1, long_window |-> 2]
    /\ StrategyIdle /\ BacktestIdle /\ LiveFresh /\ Constructed

NextStart ==
    \/ Start \/ CycleFetch \/ CycleAnalyze \/ CycleTrade \/ CycleSave
    \/ CycleBalance \/ Register \/ RunPending \/ RunJob \/ PendingDone
    \/ Interrupt \/ Stop

SpecStart == InitStart /\ [][NextStart]_vars

\* Nothing is constructed yet: no strategy, no state variable.
InitConstruct ==
    /\ UtilsIdle
    /\ env \in Environments
    /\ ctor = "pending" /\ attrs = {}
    /\ is_running = FALSE /\ NotStarted
    /\ params = EmptyDict /\ ctor_params = EmptyDict /\ named = EmptyDict
    /\ last_action = Unassigned /\ data_cache = <<>>
    /\ trades_history = <<>> /\ orders = <<>>
    /\ call = [signal |-> NoCall, prev_action |-> "none", submitted |-> "none",
               status |-> NoCall,
               ticker |-> "none", exchange |-> "none",
               reason |-> "none"]
    /\ StrategyIdle /\ BacktestIdle

NextConstruct == Construct

SpecConstruct == InitConstruct /\ [][NextConstruct]_vars

\* A strategy built directly with a dictionary, then reconfigured.
InitParams ==
    /\ UtilsIdle
    /\ ctor_params \in ParamDicts
    /\ params = MovingAverageCrossover(ctor_params)
    /\ named = EmptyDict
    /\ env = [STRATEGY |-> Unset, SHORT_WINDOW |-> UnsetWindow, LONG_WINDOW |-> UnsetWindow]
    /\ ctor = "pending" /\ attrs = {}
    /\ is_running = FALSE /\ NotStarted
    /\ StrategyIdle /\ BacktestIdle /\ LiveFresh

NextParams == SetParams

SpecParams == InitParams /\ [][NextParams]_vars

\* Scenario series: a flat run of closes at 100, then the first bars of a
\* rise, handed to a strategy with the windows 3 and 10.
ScenarioRise == <<101, 103, 106, 110, 115>>
ScenarioSeries(flat, rise) ==
    LET closes == [k \in 1..flat |-> 100] \o SubSeq(ScenarioRise, 1, rise)
    IN  [k \in 1..Len(closes) |-> [time |-> TimeOf(k - 1), close |-> closes[k]]]
ScenarioParams == [short_window |-> 3, long_window |-> 10]

InitScenario ==
    /\ UtilsIdle
    /\ params = ScenarioParams
    /\ data \in { ScenarioSeries(flat, rise) :
                     flat \in 0..MaxFlat, rise \in 0..Len(ScenarioRise) }
    /\ called = {}
    /\ sig_out = [out |-> NoCall, rolled |-> FALSE] /\ ind_out = <<>>
    /\ BacktestIdle /\ LiveFresh /\ Constructed

NextScenario == GenerateSignal \/ CalculateIndicators

SpecScenario == InitScenario /\ [][NextScenario]_vars

\* -------------------------------------------------------- ProfitLossTracker
\* An account balance: a dictionary from asset names to amounts, here of at
\* most one asset.  The empty dictionary is what the exchange client yields
\* when it has no balance to report.
Balances == {EmptyDict} \cup { [a \in {"USD"} |-> v] : v \in 1..MaxFunds }

\* The truth value of a dictionary in a condition: False when it is empty.
IsSet(b) == DOMAIN b # {}

\* The structure _load_history returns when there is no file or the file
\* cannot be read.
DefaultHistory ==
    [first_recorded_balance |-> EmptyDict, latest_balance |-> EmptyDict,
     daily_snapshots |-> <<>>, profit_loss_history |-> <<>>]

\* _load_history()
LoadHistory(file, readable) ==
    IF file = NoFile \/ ~readable THEN DefaultHistory ELSE file[1]

\* A snapshot is added whenever a balance is known, whatever the list holds.
EnsureAlwaysAppends(snapshots, latest, day) ==
    IF IsSet(latest)
    THEN Append(snapshots, [date |-> day, starting_balance |-> latest,
                            ending_balance |-> latest])
    ELSE snapshots

\* _ensure_daily_snapshot(): a snapshot for the day is added when the list
\* has none and a latest balance is known.
EnsureDailySnapshot(snapshots, latest, day) ==
    IF \E k \in DOMAIN snapshots : snapshots[k].date = day
    THEN snapshots
    ELSE IF IsSet(latest)
    THEN Append(snapshots, [date |-> day, starting_balance |-> latest,
                            ending_balance |-> latest])
    ELSE snapshots

\* The first recorded balance is overwritten by every update.
FirstOverwritten(first, new_balance) == new_balance

\* if not self.financial_history.get('first_recorded_balance'): ... = new_balance
FirstRecorded(first, new_balance) == IF ~IsSet(first) THEN new_balance ELSE first

\* for snapshot in self.daily_snapshots: if snapshot['date'] == today: ...; break
WithEndingBalance(snapshots, day, new_balance) ==
    LET at == { k \in DOMAIN snapshots : snapshots[k].date = day }
    IN  [k \in DOMAIN snapshots |->
            IF k \in at /\ \A j \in at : k <= j
            THEN [snapshots[k] EXCEPT !.ending_balance = new_balance]
            ELSE snapshots[k]]

\* The days the clock may show at the next reading.
DaysFrom(day) == { d \in day..(day + 1) : d <= MaxDays }

\* ProfitLossTracker(storage_path): the history is loaded from the file, the
\* three balances start as the latest balance of the history when it has
\* one, and the day's snapshot is ensured.
NewTracker ==
    /\ sessions < MaxSessions
    /\ \E readable \in BOOLEAN, day \in DaysFrom(today) :
          LET history == LoadHistory(stored, readable)
              latest == history.latest_balance
          IN  /\ tracker' = <<
                    [first_recorded_balance |-> history.first_recorded_balance,
                     latest_balance |-> latest,
                     profit_loss_history |-> history.profit_loss_history,
                     daily_snapshots |->
                         EnsureDailySnapshot(history.daily_snapshots, latest, day),
                     session_start_balance |-> latest,
                     previous_balance |-> latest,
                     current_balance |-> latest] >>
              /\ today' = day
    /\ sessions' = sessions + 1
    /\ tracker_op' = "init"
    /\ UNCHANGED <<params, strategy_vars, backtest_vars, live_vars, ctor_vars,
                   param_vars, run_vars, stored, cleanup_vars>>

\* update_balance(new_balance); the clock is read once to ensure the
\* snapshot and once more to find it; the save at the end is taken to succeed.
UpdateBalance ==
    /\ tracker # NoTracker
    /\ Len(tracker[1].profit_loss_history) < MaxUpdates
    /\ \E new_balance \in Balances :
       \E day \in DaysFrom(today) :
       \E day2 \in DaysFrom(day) :
          LET first == FirstRecorded(tracker[1].first_recorded_balance, new_balance)
              ensured == EnsureDailySnapshot(tracker[1].daily_snapshots,
                                             new_balance, day)
              after ==
                  [first_recorded_balance |-> first,
                   latest_balance |-> new_balance,
                   profit_loss_history |->
                       Append(tracker[1].profit_loss_history, new_balance),
                   daily_snapshots |->
                       WithEndingBalance(ensured, day2, new_balance),
                   session_start_balance |->
                       IF ~IsSet(tracker[1].first_recorded_balance)
                       THEN new_balance ELSE tracker[1].session_start_balance,
                   previous_balance |-> tracker[1].current_balance,
                   current_balance |-> new_balance]
          IN  /\ tracker' = <<after>>
              /\ stored' = <<[k \in DOMAIN DefaultHistory |-> after[k]]>>
              /\ today' = day2
    /\ tracker_op' = "update"
    /\ UNCHANGED <<params, strategy_vars, backtest_vars, live_vars, ctor_vars,
                   param_vars, run_vars, sessions, cleanup_vars>>

\* Nothing is built yet; the bot is constructed but plays no part.
InitTracker ==
    /\ UtilsIdle
    /\ params = [short_window |-> 1, long_window |-> 2]
    /\ StrategyIdle /\ BacktestIdle /\ LiveFresh /\ Constructed

NextTracker == NewTracker \/ UpdateBalance

SpecTracker == InitTracker /\ [][NextTracker]_vars

\* -------------------------------------------------------- cleanup_data_files
\* The names of the files that may match the pattern.
FileNames == 1..MaxFiles

\* A data directory: the matching files, each with the age in whole days of
\* the date in its name (or of its modification time).
Directories ==
    UNION { [names -> 0..MaxAge] : names \in SUBSET FileNames }

\* file_dates.sort(key=lambda x: x[1], reverse=True): the files newest first;
\* files of one date come in the order glob listed them, which is any order.
SortedNewestFirst(dir) ==
    { order \in [1..Cardinality(DOMAIN dir) -> DOMAIN dir] :
         /\ \A j, k \in DOMAIN order : j # k => order[j] # order[k]
         /\ \A j, k \in DOMAIN order : j < k => dir[order[j]] <= dir[order[k]] }

\* if file_date > cutoff_date, with cutoff_date = now - days_to_keep days
IsRecent(age, days_to_keep) == age < days_to_keep

\* As many older files are kept as max_files says, whatever is recent.
KeepsMaxOlder(max_files, recent) == IF max_files > 0 THEN max_files ELSE 0

\* older_files_to_keep = max(0, max_files - len(recent_files))
OlderFilesToKeep(max_files, recent) ==
    IF max_files - recent > 0 THEN max_files - recent ELSE 0

\* older_files[older_files_to_keep:]
FilesToDelete(order, dir, max_files, days_to_keep) ==
    LET Recent(f) == IsRecent(dir[f], days_to_keep)
        Older(f) == ~IsRecent(dir[f], days_to_keep)
        recent_files == SelectSeq(order, Recent)
        older_files == SelectSeq(order, Older)
        keep == OlderFilesToKeep(max_files, Len(recent_files))
    IN  { older_files[k] : k \in (keep + 1)..Len(older_files) }

\* cleanup_data_files(data_dir, max_files=..., days_to_keep=...): listing the
\* files may raise, which ends the call with 0; os.remove may fail for any
\* of the files, which are then left and not counted.
CleanupDataFiles ==
    /\ cleaned = NotCleaned
    /\ \E max_files \in (0 - 1)..MaxFiles, days_to_keep \in 0..(MaxAge + 1),
          listing \in {"ok", "raise"} :
       \E order \in SortedNewestFirst(dir_files) :
          LET files_to_delete ==
                  IF listing = "raise" THEN {}
                  ELSE FilesToDelete(order, dir_files, max_files, days_to_keep)
          IN  \E failed \in SUBSET files_to_delete :
                 LET deleted == files_to_delete \ failed
                 IN  /\ dir_files' =
                           [f \in DOMAIN dir_files \ deleted |-> dir_files[f]]
                     /\ cleaned' = [status |-> listing, before |-> dir_files,
                                    max_files |-> max_files,
                                    days_to_keep |-> days_to_keep,
                                    failed |-> failed,
                                    returned |-> Cardinality(deleted)]
    /\ UNCHANGED <<params, strategy_vars, backtest_vars, live_vars, ctor_vars,
                   param_vars, run_vars, tracker_vars>>

\* Any data directory, before the call.
InitCleanup ==
    /\ TrackerIdle
    /\ dir_files \in Directories /\ cleaned = NotCleaned
    /\ params = [short_window |-> 1, long_window |-> 2]
    /\ StrategyIdle /\ BacktestIdle /\ LiveFresh /\ Constructed

NextCleanup == CleanupDataFiles

SpecCleanup == InitCleanup /\ [][NextCleanup]_vars



\* ------------------------------------------------- claims on the strategy
BothCalled == called = {"generate_signal", "calculate_indicators"}

\* Row k of an annotated series has its own and the previous row's means.
FourDefined(rows, k) ==
    /\ k >= 2
    /\ rows[k].short_ma.def /\ rows[k].long_ma.def
    /\ rows[k - 1].short_ma.def /\ rows[k - 1].long_ma.def

\* short_ma > long_ma at row k, as fractions.
ShortAbove(rows, k) ==
    rows[k].short_ma.num * rows[k].long_ma.den
        > rows[k].long_ma.num * rows[k].short_ma.den

\* short_ma < long_ma at row k, as fractions.
ShortBelow(rows, k) ==
    rows[k].short_ma.num * rows[k].long_ma.den
        < rows[k].long_ma.num * rows[k].short_ma.den

\* The upward crossing at row k: above now, not above on the previous row.
UpCross(rows, k) ==
    FourDefined(rows, k) /\ ShortAbove(rows, k) /\ ~ShortAbove(rows, k - 1)

\* The downward crossing at row k: below now, not below on the previous row.
DownCross(rows, k) ==
    FourDefined(rows, k) /\ ShortBelow(rows, k) /\ ~ShortBelow(rows, k - 1)

\* C1 (as claimed): for a non-empty series, generate_signal returns a signal
\* without raising, and it is the signal calculate_indicators wrote into the
\* last row.
C1_ConsistencyLaw ==
    (BothCalled /\ Len(data) >= 1) =>
        /\ sig_out.out \in Signals
        /\ sig_out.out = ind_out[Len(data)].signal

\* C2: on a series shorter than long_window generate_signal returns 'hold',
\* does not raise and computes no moving average.
C2_ShortSeriesHold ==
    ("generate_signal" \in called /\ Len(data) < params.long_window) =>
        sig_out = [out |-> "hold", rolled |-> FALSE]

C2_Witness ==
    /\ "generate_signal" \in called
    /\ Len(data) = 2 /\ params.long_window = 3
    /\ sig_out.out = "hold"

C5_OtherRowsHold ==
    "calculate_indicators" \in called =>
        \A k \in 1..Len(ind_out) :
            /\ ~FourDefined(ind_out, k) => ind_out[k].signal = "hold"
            /\ (params.short_window <= params.long_window /\ k <= params.long_window)
                  => ind_out[k].signal = "hold"
            /\ (FourDefined(ind_out, k) /\ ShortAbove(ind_out, k)
                    /\ ShortAbove(ind_out, k - 1))
                  => ind_out[k].signal = "hold"
            /\ (~UpCross(ind_out, k) /\ ~DownCross(ind_out, k))
                  => ind_out[k].signal = "hold"

C5_Witness ==
    /\ "calculate_indicators" \in called
    /\ params.short_window < params.long_window
    /\ Len(ind_out) > params.long_window
    /\ \E k \in 2..Len(ind_out) :
          /\ FourDefined(ind_out, k)
          /\ ShortAbove(ind_out, k) /\ ShortAbove(ind_out, k - 1)
          /\ ind_out[k].signal = "hold"
    /\ ind_out[params.long_window].signal = "hold"

\* C21: on the closes [100]*30 + [101, 103, 106, 110, 115] with the windows
\* 3 and 10, calculate_indicators writes exactly one 'buy', on bar index 30
\* (row 31), the first bar whose short mean exceeds the long mean; no
\* 'sell'; 'hold' on every other bar.
C21_ScenarioSingleBuy ==
    ("calculate_indicators" \in called /\ data = ScenarioSeries(30, 5)) =>
        /\ Len(ind_out) = 35
        /\ \A k \in 1..35 : ind_out[k].signal = IF k = 31 THEN "buy" ELSE "hold"
        /\ \A k \in 1..30 : ~(ind_out[k].short_ma.def /\ ind_out[k].long_ma.def
                                  /\ ShortAbove(ind_out, k))
        /\ ShortAbove(ind_out, 31)

C21_Witness ==
    /\ "calculate_indicators" \in called /\ data = ScenarioSeries(30, 5)
    /\ params = [short_window |-> 3, long_window |-> 10]
    /\ ind_out[31].signal = "buy" /\ ind_out[35].signal = "hold"

\* ------------------------------------------------- claims on the backtest
\* A step of the backtest loop: the body ran for the value i had before it.
LoopStep == bt_pc = "loop" /\ bt_pc' = "loop" /\ i' = i + 1

\* C6: in a loop step taken while Flat on a 'buy' in the previous row (row i
\* of the sequence is pandas row i-1), the position becomes Long, and the
\* entry price and the entry time are that row's close and timestamp.
C6_OpenTransition ==
    [][(LoopStep /\ position = 0 /\ strategy_data[i].signal = "buy") =>
          /\ position' = 1
          /\ entry_price' = strategy_data[i].close
          /\ trades' = Append(trades, [time |-> strategy_data[i].time,
                                       action |-> "BUY",
                                       price |-> strategy_data[i].close])]_vars

\* A position opened at a price that differs from the close of the bar the
\* step is at.
C6_Witness ==
    /\ bt_pc = "loop" /\ i >= 2 /\ position = 1
    /\ strategy_data[i - 1].signal = "buy"
    /\ entry_price = strategy_data[i - 1].close
    /\ trades[Len(trades)].time = strategy_data[i - 1].time
    /\ strategy_data[i].close # entry_price

\* C7: in a loop step taken while Long on a 'sell' in the previous row, the
\* position becomes Flat, exit_price is that row's close, and exactly one
\* return is recorded, exit_price / entry_price - 1 with the entry price of
\* the most recent opening buy; no other step records a return.
C7_CloseTransition ==
    [][/\ (LoopStep /\ position = 1 /\ strategy_data[i].signal = "sell") =>
            /\ position' = 0
            /\ exit_price' = strategy_data[i].close
            /\ trades[Len(trades)].action = "BUY"
            /\ trades[Len(trades)].price = entry_price
            /\ ~returns[i + 1].def /\ returns'[i + 1].def
            /\ returns'[i + 1].num * entry_price
                  = (strategy_data[i].close - entry_price) * returns'[i + 1].den
            /\ \A k \in DOMAIN returns : k # i + 1 => returns'[k] = returns[k]
       /\ (bt_pc = "loop" /\ returns' # returns) =>
            /\ LoopStep /\ position = 1 /\ position' = 0
            /\ strategy_data[i].signal = "sell"]_vars

\* A closed trade with a non-zero return.
C7_Witness ==
    /\ bt_pc = "loop" /\ i >= 2 /\ position = 0
    /\ strategy_data[i - 1].signal = "sell"
    /\ exit_price = strategy_data[i - 1].close
    /\ returns[i].def /\ returns[i].num # 0
    /\ trades[Len(trades)].action = "SELL"

\* C8: the position is always 0 (Flat) or 1 (Long) - it is 0 initially - and
\* a 'sell' while Flat, a 'buy' while Long or a 'hold' changes neither the
\* position nor the entry price and records no trade and no return.
C8_NoOtherTransition ==
    [][/\ position' \in {0, 1}
       /\ (/\ LoopStep
           /\ \/ position = 0 /\ strategy_data[i].signal = "sell"
              \/ position = 1 /\ strategy_data[i].signal = "buy"
              \/ strategy_data[i].signal = "hold") =>
            UNCHANGED <<position, entry_price, trades, returns>>]_vars

\* A 'buy' that arrived while Long and was not recorded.
C8_Witness ==
    /\ bt_pc = "loop" /\ i >= 2 /\ position = 1
    /\ strategy_data[i - 1].signal = "buy"
    /\ trades[Len(trades)].time # strategy_data[i - 1].time
    /\ entry_price # strategy_data[i - 1].close

\* ------------------------------------------------ claims on the live gate
\* The number of entries of trades_history of one type.
Executed(type) == Cardinality({ k \in DOMAIN trades_history : trades_history[k] = type })

\* C9 (as claimed): a sell order is submitted only if the most recent
\* successfully executed order was a buy, and the executed sells never
\* outnumber the executed buys.
C9_NeverShort ==
    /\ call.submitted = "sell" => call.prev_action = "buy"
    /\ Executed("sell") <= Executed("buy")

\* C10: a call whose signal is 'hold' or equals last_action submits no order,
\* returns 'no_trade' and leaves last_action and trades_history as they were;
\* so after an executed buy (or sell) no 'hold' and no repeat of it produces
\* an order or changes last_action.
C10_DedupGate ==
    [][(call'.signal = "hold" \/ call'.signal = last_action) =>
          /\ orders' = orders
          /\ call'.status = "no_trade" /\ call'.submitted = "none"
          /\ last_action' = last_action
          /\ trades_history' = trades_history]_vars

\* After one executed buy, a further 'buy' that was suppressed.
C10_Witness ==
    /\ last_action = "buy" /\ trades_history = <<"buy">> /\ orders = <<"buy">>
    /\ call = [signal |-> "buy", prev_action |-> "buy", submitted |-> "none",
               status |-> "no_trade",
               ticker |-> "none", exchange |-> "none",
               reason |-> "gate"]

\* C23: every backtest run starts Flat and with no trade, whatever an earlier
\* run or live trading left behind, and no step of a backtest submits an
\* order or changes last_action or trades_history.
C23_BacktestIsolated ==
    [][/\ (bt_pc = "idle" /\ bt_pc' = "loop") => (position' = 0 /\ trades' = <<>>)
       /\ UNCHANGED <<last_action, trades_history, orders>>]_vars

\* A run on a bot with an executed live buy: it simulated a buy of its own and
\* the live state is as it was.
C23_Witness ==
    /\ bt_result.status = "success" /\ Len(trades) >= 1
    /\ trades[1].action = "BUY"
    /\ last_action = "buy" /\ trades_history = <<"buy">> /\ orders = <<"buy">>

\* The timestamps of a series increase strictly from row to row.
StrictlyIncreasing(d) == \A k \in 2..Len(d) : d[k - 1].time < d[k].time

\* The executed sells of the simulation.
SellRecords == { k \in DOMAIN trades : trades[k].action = "SELL" }

\* The trade record t was made on row k of the annotated series.
MadeOnRow(t, k) ==
    /\ t.time = strategy_data[k].time /\ t.price = strategy_data[k].close
    /\ strategy_data[k].signal = IF t.action = "BUY" THEN "buy" ELSE "sell"

\* C26: the loop runs i = 1..N-1 and acts on signal[i-1] only: every trade
\* was made on one of the rows 0..N-2, so the signal of the final bar is
\* never executed and a one-bar series trades nothing; a sell follows its
\* buy by at least one step, so with strictly increasing timestamps every
\* completed trade exits strictly later than it entered.
C26_LoopRange ==
    (bt_pc = "loop" \/ bt_result.status = "success") =>
        /\ i >= 1 /\ (Len(strategy_data) >= 1 => i <= Len(strategy_data))
        /\ \A n \in DOMAIN trades :
              \E k \in 1..(i - 1) :
                  k <= Len(strategy_data) - 1 /\ MadeOnRow(trades[n], k)
        /\ Len(trades) <= i - 1
        /\ Len(strategy_data) <= 1 => (trades = <<>> /\ position = 0)
        /\ StrictlyIncreasing(strategy_data) =>
              /\ \A n \in DOMAIN trades :
                    trades[n].time # strategy_data[Len(strategy_data)].time
              /\ \A n \in SellRecords :
                    n >= 2 /\ trades[n - 1].time < trades[n].time

\* A run that ended Long with a 'sell' on the final bar: it was not executed.
C26_Witness ==
    /\ bt_result.status = "success" /\ position = 1
    /\ StrictlyIncreasing(strategy_data)
    /\ strategy_data[Len(strategy_data)].signal = "sell"
    /\ trades[Len(trades)].action = "BUY"

\* The number of trade records of one action.
Recorded(action) == Cardinality({ n \in DOMAIN trades : trades[n].action = action })

\* C27: the trade records alternate BUY, SELL, BUY, ... from a BUY; at every
\* step BUYs minus SELLs is the position (0 Flat, 1 Long), and the number of
\* realized returns is the number of SELL records.
C27_TradesAlternate ==
    (bt_pc = "loop" \/ bt_result.status = "success") =>
        /\ \A n \in DOMAIN trades :
              trades[n].action = IF n % 2 = 1 THEN "BUY" ELSE "SELL"
        /\ Recorded("BUY") - Recorded("SELL") = position
        /\ position \in {0, 1}
        /\ Cardinality({ k \in DOMAIN returns : returns[k].def }) = Recorded("SELL")

\* A buy, its sell, and a second buy still open.
C27_Witness ==
    /\ bt_pc = "loop" /\ Len(trades) = 3 /\ position = 1
    /\ trades[2].action = "SELL" /\ trades[3].action = "BUY"
    /\ Cardinality({ k \in DOMAIN returns : returns[k].def }) = 1

\* ------------------------------------------- claims on the backtest result
\* C11 (as claimed): a backtest whose series is empty - empty as fetched, or
\* empty once the start_date / end_date filters are applied - returns
\* 'error', never 'success'.
C11_EmptySeriesIsError ==
    (bt_pc = "done" /\ strategy_data = <<>>) => bt_result.status = "error"

\* C12: backtest never lets a failure out: every call returns a dictionary
\* whose status is 'success' or 'error', an 'error' carries a reason, and a
\* fetch that fails (nothing cached, nothing to simulate) or a frame without
\* a 'close' column ends in 'error'.
C12_NeverRaises ==
    /\ bt_pc = "done" => bt_result.status \in {"success", "error"}
    /\ bt_pc # "done" => bt_result.status = NoCall
    /\ bt_result.status = "error" =>
          "reason" \in DOMAIN bt_result /\ bt_result.reason # ""
    /\ (bt_pc = "done" /\ data_cache = <<>>) => bt_result.status = "error"
    /\ (data_cache # <<>> /\ ~HasCloseColumn(data_cache[1])) =>
          bt_pc = "done" /\ bt_result.status = "error"

\* The KeyError of a frame without 'close', returned as an error result.
C12_Witness ==
    /\ bt_pc = "done" /\ data_cache # <<>>
    /\ ~HasCloseColumn(data_cache[1])
    /\ bt_result = [status |-> "error", reason |-> "'close'"]

\* C13 (as claimed): a backtest over a series whose timestamps are not
\* strictly increasing (out of order, or repeated) returns 'error' instead
\* of simulating.
C13_UnorderedIsError ==
    (bt_pc = "done" /\ ~StrictlyIncreasing(strategy_data)) =>
        bt_result.status = "error"

\* The bars at which a completed trade with a non-zero return was recorded.
CompletedNonZero == { k \in DOMAIN returns : returns[k].def /\ returns[k].num # 0 }

\* C14 (as claimed): total_trades is the number of completed trades with a
\* non-zero return - a bar without a closed trade adds nothing - so it is at
\* most the number of executed sells, and winning_trades + losing_trades
\* equals it.
C14_TotalTrades ==
    bt_result.status = "success" =>
        /\ bt_result.metrics.total_trades = Cardinality(CompletedNonZero)
        /\ bt_result.metrics.total_trades <= Cardinality(SellRecords)
        /\ bt_result.metrics.winning_trades + bt_result.metrics.losing_trades
              = bt_result.metrics.total_trades

\* A metric that is the number 0, not NaN.
IsZero(x) == x.def /\ x.num = 0

\* C15 (as claimed): win_rate is winning_trades over the number of completed
\* trades with a non-zero return; win_rate, avg_win and avg_loss are 0 when
\* no trade completed; avg_win is 0 without a winning trade and avg_loss is
\* 0 without a losing one.
C15_WinRate ==
    bt_result.status = "success" =>
        /\ Cardinality(CompletedNonZero) > 0 =>
              /\ bt_result.metrics.win_rate.def
              /\ bt_result.metrics.win_rate.num * Cardinality(CompletedNonZero)
                    = bt_result.metrics.winning_trades * bt_result.metrics.win_rate.den
        /\ SellRecords = {} =>
              /\ IsZero(bt_result.metrics.win_rate)
              /\ IsZero(bt_result.metrics.avg_win)
              /\ IsZero(bt_result.metrics.avg_loss)
        /\ bt_result.metrics.winning_trades = 0 => IsZero(bt_result.metrics.avg_win)
        /\ bt_result.metrics.losing_trades = 0 => IsZero(bt_result.metrics.avg_loss)

RECURSIVE CompoundOver(_, _)
\* The product of exit price / entry price over the sells among the first n
\* trade records; the record before a sell is the buy that opened it.
CompoundOver(tr, n) ==
    IF n = 0 THEN Num(1, 1)
    ELSE LET rest == CompoundOver(tr, n - 1)
         IN  IF tr[n].action = "SELL"
             THEN Num(tr[n].price * rest.num, tr[n - 1].price * rest.den)
             ELSE rest

\* C16: cumulative_return is the product of (1 + return) over exactly the
\* completed trades, minus 1: a position still open at the end and the bars
\* without a closed trade contribute a factor of 1, it is 0 when no trade
\* completed, and returns of +10% and -10% compound to -1%.
C16_CumulativeReturn ==
    /\ bt_result.status = "success" =>
          LET growth == CompoundOver(trades, Len(trades))
              total == bt_result.metrics.cumulative_return
          IN  /\ total.def
              /\ (total.num + total.den) * growth.den = growth.num * total.den
              /\ SellRecords = {} => total.num = 0
    /\ LET total == Metrics(<<NaN, Num(1, 10), NaN, Num(-1, 10)>>).cumulative_return
       IN  total.def /\ total.num * 100 = (-1) * total.den

\* One completed losing trade, then a position left open at the end.
C16_Witness ==
    /\ bt_result.status = "success"
    /\ position = 1 /\ Cardinality(SellRecords) = 1
    /\ trades[Len(trades)].action = "BUY"
    /\ bt_result.metrics.cumulative_return.num < 0

\* C17 (as claimed): a successful backtest result carries the list of trades
\* together with the metrics and the annotated series.
C17_ResultCarriesTrades ==
    bt_result.status = "success" =>
        /\ "metrics" \in DOMAIN bt_result
        /\ "data" \in DOMAIN bt_result /\ bt_result.data = strategy_data
        /\ "trades" \in DOMAIN bt_result /\ bt_result.trades = trades

\* ------------------------------------------- claims on analyze_market
\* C22: analyze_market returns 'buy', 'sell' or 'hold' and never raises; it
\* returns 'hold' when the frame to analyze is empty (no argument, nothing
\* cached and the fetch failed included) and when the strategy raises: on a
\* frame without a 'close' column, or the IndexError of generate_signal.
C22_AnalyzeNeverRaises ==
    analyzed.out # NoCall =>
        /\ analyzed.out \in Signals
        /\ analyzed.used = <<>> => analyzed.out = "hold"
        /\ (analyzed.arg = <<>> /\ data_cache = <<>>) => analyzed.out = "hold"
        /\ ~HasCloseColumn(analyzed.used) => analyzed.out = "hold"
        /\ (analyzed.used # <<>> /\ HasCloseColumn(analyzed.used)
                /\ generate_signal(analyzed.used, params).out = "IndexError")
              => analyzed.out = "hold"

\* The cached frame has no 'close' column, and the call returned 'hold'.
C22_Witness ==
    /\ analyzed.arg = <<>> /\ data_cache # <<>>
    /\ analyzed.used = data_cache[1]
    /\ ~HasCloseColumn(analyzed.used)
    /\ analyzed.out = "hold"

\* ---------------------------------------------- claims on the constructor
\* The strategy name __init__ reads from the environment.
ConfiguredStrategy == Getenv(env.STRATEGY, "simple_ma")

\* C18: constructing a bot whose configured strategy name is not 'simple_ma'
\* ends in an error: no bot is constructed, no strategy is set up (no
\* default one either), and is_running, last_action and trades_history are
\* never initialized.
C18_UnknownStrategyAborts ==
    /\ (ctor \notin {"pending", "ClientError"} /\ ConfiguredStrategy # "simple_ma") =>
          ctor = "ValueError"
    /\ ctor = "ValueError" =>
          /\ ConfiguredStrategy # "simple_ma"
          /\ "strategy" \notin attrs /\ DOMAIN params = {}
          /\ attrs \cap StateAttrs = {}
          /\ last_action = Unassigned /\ trades_history = <<>>
    /\ ctor = "ok" =>
          /\ ConfiguredStrategy = "simple_ma"
          /\ attrs = AllAttrs /\ last_action = "none"

\* The client was set up, then the name 'rsi' aborted the construction.
C18_Witness ==
    /\ env.STRATEGY = "rsi" /\ ctor = "ValueError"
    /\ attrs = ConfigAttrs /\ last_action = Unassigned

\* ------------------------------------------------- claims on the parameters
\* C19: set_params merges: a parameter holds the value of the most recent
\* call that named it, a parameter no call named keeps the value the
\* constructor gave it (the argument's, else the default 20 / 50), and no
\* key is ever removed.
C19_SetParamsMerges ==
    /\ DOMAIN params = DOMAIN DefaultParams \cup DOMAIN ctor_params \cup DOMAIN named
    /\ \A k \in DOMAIN params :
          params[k] = IF k \in DOMAIN named THEN named[k]
                      ELSE IF k \in DOMAIN ctor_params THEN ctor_params[k]
                      ELSE DefaultParams[k]

\* short_window was set, long_window was never named and is still the
\* default, and a key the constructor was given is still there.
C19_Witness ==
    /\ DOMAIN named = {"short_window"} /\ DOMAIN ctor_params = {"threshold"}
    /\ params.short_window = named.short_window
    /\ params.long_window = DefaultLongWindow
    /\ params.threshold = ctor_params.threshold

\* C20: neither generate_signal nor calculate_indicators changes the series
\* it is given, and calculate_indicators returns a series of the same length
\* and index whose time and close are the input's, with the columns
\* short_ma, long_ma and signal added.
C20_InputUntouched ==
    [][/\ data' = data
       /\ "calculate_indicators" \in called' =>
             /\ Len(ind_out') = Len(data)
             /\ \A k \in 1..Len(data) :
                   /\ DOMAIN data[k] = {"time", "close"}
                   /\ DOMAIN ind_out'[k]
                         = DOMAIN data[k] \cup {"short_ma", "long_ma", "signal"}
                   /\ \A c \in DOMAIN data[k] : ind_out'[k][c] = data[k][c]]_vars

\* Both operations ran on a series that got a 'buy' row, and the series
\* still has its two columns only.
C20_Witness ==
    /\ BothCalled /\ Len(data) >= 3
    /\ \E k \in 1..Len(ind_out) : ind_out[k].signal = "buy"
    /\ \A k \in 1..Len(data) : DOMAIN data[k] = {"time", "close"}

\* C28: after any sequence of execute_trade calls, whatever the signals and
\* whatever the exchange did, trades_history has no two consecutive entries of
\* one type, and last_action is the type of its last entry, or 'none' while
\* it is empty.
C28_HistoryAlternates ==
    /\ \A k \in 2..Len(trades_history) : trades_history[k - 1] # trades_history[k]
    /\ last_action = IF trades_history = <<>> THEN "none"
                     ELSE trades_history[Len(trades_history)]

\* A buy, a sell and a buy were executed, with a failed order in between.
C28_Witness ==
    /\ trades_history = <<"buy", "sell", "buy">>
    /\ Len(orders) > Len(trades_history)
    /\ last_action = "buy"

\* C29: a call that the gate suppresses, or whose order the exchange answers
\* with an error, or whose order block raises, returns 'no_trade' or 'error'
\* and leaves last_action and trades_history as they were; after a failed
\* order the gate does not suppress the same signal, so it is tried again.
C29_FailureKeepsState ==
    [][/\ (\/ Gate(call'.signal, last_action)
           \/ call'.exchange \in {"error", "raise"}) =>
             /\ call'.status \in {"no_trade", "error"}
             /\ UNCHANGED <<last_action, trades_history>>
       /\ call'.status # "success" =>
             /\ call'.status \in {"no_trade", "error"}
             /\ UNCHANGED <<last_action, trades_history>>
       /\ call'.exchange \in {"error", "raise"} =>
             ~Gate(call'.signal, last_action')]_vars

\* A buy order failed, and the next 'buy' was submitted again and executed.
C29_Witness ==
    /\ orders = <<"buy", "buy">> /\ trades_history = <<"buy">>
    /\ call.status = "success" /\ call.prev_action = "none"

\* C30: execute_trade returns 'success' exactly when it submitted one order
\* whose side is the signal and the exchange answered it without an error;
\* then last_action is the signal and one record of that type is appended
\* to trades_history.  A failed price fetch does not keep a 'buy' or 'sell'
\* that passed the gate from being submitted.
C30_SuccessIffOrdered ==
    [][LET ordered == orders' = Append(orders, call'.signal)
       IN  /\ call'.status = "success" <=> (ordered /\ call'.exchange = "ok")
           /\ call'.status = "success" =>
                 /\ last_action' = call'.signal
                 /\ trades_history' = Append(trades_history, call'.signal)
           /\ call'.status # "success" => Len(orders') <= Len(orders) + 1
           /\ ( /\ call'.signal \in {"buy", "sell"}
                /\ ~Gate(call'.signal, last_action) ) =>
                 (ordered /\ call'.ticker \in TickerOutcomes)]_vars

\* A sell executed although its price fetch failed.
C30_Witness ==
    /\ call.signal = "sell" /\ call.ticker = "raise" /\ call.status = "success"
    /\ last_action = "sell" /\ trades_history = <<"buy", "sell">>

\* C24: no exception of a collaborator of a trading cycle (the data fetch, the
\* analysis, the order, the saving of the data, the balance query) ends the
\* loop of start: the step that catches it leaves is_running True and the
\* loop, the registered jobs and the jobs still due as they were, and the
\* cycle has ended or goes on with its next step.
C24_CycleContainsFailure ==
    [][/\ start_pc' # "crashed"
       /\ faulted' # faulted =>
             /\ is_running /\ is_running'
             /\ UNCHANGED <<start_pc, jobs, due>>
             /\ \A k \in DOMAIN cycles' :
                   cycles'[k].id = faulted'.id => cycles'[k].pc \in {"trade", "save"}
             /\ Len(cycles') <= Len(cycles)]_vars

\* save_data raised in the initial cycle, and the first scheduled cycle was
\* called after it.
C24_Witness ==
    /\ faulted = [id |-> 1, step |-> "save"]
    /\ is_running /\ start_pc = "pending"
    /\ cycles # <<>> /\ cycles[1].id = 2

\* C25: at most one trading cycle is in flight at any time, and only while
\* the thread is inside start: the initial cycle and the scheduled ones run
\* one after another.
C25_OneCycleInFlight ==
    /\ Len(cycles) <= 1
    /\ cycles # <<>> => start_pc \in {"initial", "pending"}

\* Two jobs are registered and both are due: the cycle of the first is
\* running and the second waits for it.
C25_Witness ==
    /\ Len(jobs) = 2 /\ start_pc = "pending"
    /\ Len(due) = 1 /\ Len(cycles) = 1 /\ cycles[1].pc = "save"

\* The signals that are none of 'buy', 'sell' and 'hold'.
UnknownSignals == LiveSignals \ {"buy", "sell", "hold"}

\* C31: a call whose signal is none of 'buy', 'sell' and 'hold' - the value
\* 'none' included - returns 'error' with the reason 'Unknown signal',
\* submits no order and leaves last_action and trades_history as they were.
C31_UnknownSignalIsError ==
    [][call'.signal \in UnknownSignals =>
          /\ call'.status = "error" /\ call'.reason = "Unknown signal"
          /\ UNCHANGED <<orders, last_action, trades_history>>]_vars

\* C32: a trading cycle whose fetch fails or returns no bar is skipped: the
\* strategy is not evaluated, no order is submitted, last_action and
\* data_cache stay as they were; after any other fetch the cycle goes on
\* with the fetched frame and data_cache is that frame.
C32_EmptyFetchSkipsCycle ==
    [][( /\ cycles # <<>> /\ cycles[1].pc = "fetch"
         /\ cycles' # cycles /\ start_pc' = start_pc ) =>
          IF cycles' = <<>>
          THEN UNCHANGED <<analyzed, orders, call, last_action, trades_history,
                           data_cache>>
          ELSE /\ cycles'[1].pc = "analyze" /\ cycles'[1].data # <<>>
               /\ data_cache' = <<cycles'[1].data>>]_vars

\* The fetch of the second cycle failed: the cycle is over, nothing newer
\* than the first cycle's frame was analysed, and that frame is still cached.
C32_Witness ==
    /\ faulted = [id |-> 2, step |-> "fetch"] /\ cycles = <<>>
    /\ start_pc = "pending"
    /\ data_cache # <<>> /\ analyzed.used = data_cache[1]

\* C33: while the bot runs a start of a mode other than 'live', no trading
\* cycle calls execute_trade or submits an order: orders, last_action and
\* trades_history stay as they were.
C33_PaperNeverTrades ==
    [][(start_pc # "idle" /\ mode # "live") =>
          UNCHANGED <<orders, call, last_action, trades_history>>]_vars

\* C34: start on a bot whose is_running is set returns at once: no cycle is
\* called and no job registered.  Otherwise start sets is_running and calls
\* one cycle at once; its job is registered, and scheduled cycles are
\* called, only after that cycle is over and only from run_pending inside
\* the loop; and the thread leaves the loop only with is_running cleared.
C34_StartLifecycle ==
    [][/\ (start_pc = "idle" /\ is_running /\ is_running') =>
             /\ start_pc' = "idle" /\ cycles' = <<>>
             /\ UNCHANGED <<jobs, begun, due>>
             /\ start_ret' = "already_running"
       /\ (start_pc = "idle" /\ ~is_running /\ ~UNCHANGED run_vars) =>
             /\ is_running' /\ start_pc' = "initial"
             /\ cycles' = <<NewCycle(mode', begun')>> /\ begun' = begun + 1
             /\ UNCHANGED <<jobs, due>>
       /\ jobs' # jobs =>
             /\ start_pc = "initial" /\ cycles = <<>>
             /\ jobs' = Append(jobs, mode)
       /\ (start_pc # "idle" /\ begun' # begun) =>
             /\ start_pc = "pending" /\ is_running /\ cycles = <<>>
       /\ (start_pc \in {"loop", "pending"} /\ start_pc' # start_pc) =>
             \/ start_pc' \in {"loop", "pending"} /\ is_running /\ is_running'
             \/ start_pc' = "idle" /\ ~is_running']_vars

\* A first start ran its loop until it was stopped; a later start was left
\* with is_running still set, and the start after that returned at once.
C34_Witness ==
    /\ start_ret = "already_running" /\ is_running /\ start_pc = "idle"
    /\ Len(jobs) = 1 /\ begun >= 3 /\ cycles = <<>>

\* C35: after any sequence of start and stop calls at most one trading-cycle
\* job is registered with the scheduler, so no tick calls more than one
\* trading cycle.
C35_AtMostOneJob == Len(jobs) <= 1 /\ Len(due) <= 1

\* C36: an update_balance call sets first_recorded_balance to its balance
\* when none is recorded, and leaves it alone when one is; so it is the first
\* non-empty balance supplied, and an empty balance never becomes it.
C36_FirstBalanceFixed ==
    [][tracker_op' = "update" =>
          LET first == tracker[1].first_recorded_balance
              new_balance == tracker'[1].current_balance
          IN  /\ IsSet(first) => tracker'[1].first_recorded_balance = first
              /\ ~IsSet(first) => tracker'[1].first_recorded_balance = new_balance
              /\ IsSet(tracker'[1].first_recorded_balance) =>
                    \E k \in DOMAIN tracker'[1].profit_loss_history :
                       /\ tracker'[1].profit_loss_history[k]
                              = tracker'[1].first_recorded_balance
                       /\ first # tracker'[1].first_recorded_balance =>
                             \A j \in DOMAIN tracker[1].profit_loss_history :
                                ~IsSet(tracker[1].profit_loss_history[j])]_vars

\* A new tracker without a stored history was updated with an empty balance,
\* then with two different non-empty ones: the first of these is recorded.
C36_Witness ==
    /\ tracker # NoTracker /\ tracker_op = "update"
    /\ Len(tracker[1].profit_loss_history) = 3
    /\ ~IsSet(tracker[1].profit_loss_history[1])
    /\ tracker[1].first_recorded_balance = tracker[1].profit_loss_history[2]
    /\ tracker[1].profit_loss_history[3] # tracker[1].profit_loss_history[2]
    /\ IsSet(tracker[1].profit_loss_history[3])

\* C37: an update_balance call makes previous_balance the former
\* current_balance and current_balance and latest_balance the new balance,
\* and appends one entry to profit_loss_history; it keeps every daily
\* snapshot with its date and starting_balance, sets the ending_balance of
\* the snapshot of the day of the update to the new balance and leaves the
\* ending_balance of the earlier days; and no two snapshots have one date.
C37_UpdateBookkeeping ==
    [][/\ tracker' # NoTracker =>
             \A j, k \in DOMAIN tracker'[1].daily_snapshots :
                tracker'[1].daily_snapshots[j].date
                    = tracker'[1].daily_snapshots[k].date => j = k
       /\ tracker_op' = "update" =>
             LET old == tracker[1]
                 new == tracker'[1]
                 new_balance == new.current_balance
             IN  /\ new.previous_balance = old.current_balance
                 /\ new.latest_balance = new_balance
                 /\ new.profit_loss_history
                        = Append(old.profit_loss_history, new_balance)
                 /\ Len(new.daily_snapshots) >= Len(old.daily_snapshots)
                 /\ \A k \in DOMAIN old.daily_snapshots :
                       /\ new.daily_snapshots[k].date = old.daily_snapshots[k].date
                       /\ new.daily_snapshots[k].starting_balance
                              = old.daily_snapshots[k].starting_balance
                       /\ old.daily_snapshots[k].date # today' =>
                             new.daily_snapshots[k].ending_balance
                                 = old.daily_snapshots[k].ending_balance
                 /\ \A k \in DOMAIN new.daily_snapshots :
                       new.daily_snapshots[k].date = today' =>
                          new.daily_snapshots[k].ending_balance = new_balance]_vars

\* Two updates on the first day and one on the second: the first day's
\* snapshot starts with the first balance and ends with the second, and the
\* second day has a snapshot of its own.
C37_Witness ==
    /\ tracker # NoTracker /\ tracker_op = "update"
    /\ Len(tracker[1].profit_loss_history) = 3
    /\ Len(tracker[1].daily_snapshots) = 2
    /\ tracker[1].daily_snapshots[1].starting_balance = tracker[1].profit_loss_history[1]
    /\ tracker[1].daily_snapshots[1].ending_balance = tracker[1].profit_loss_history[2]
    /\ tracker[1].profit_loss_history[1] # tracker[1].profit_loss_history[2]
    /\ tracker[1].daily_snapshots[2].ending_balance = tracker[1].current_balance
    /\ tracker[1].previous_balance = tracker[1].profit_loss_history[2]

=============================================================================
